---- MODULE Spec2Model ----
(***************************************************************************)
(* A model of the four command-line utilities of the repository:           *)
(*   rename_file.py  batch renamer          (Ren* actions, SpecRename)      *)
(*   split_pdf.py    split / extract pages  (Split*, Extract* actions)      *)
(*   pdf2img.py      rasterise pages        (P2i* actions)                  *)
(*   img2pdf.py      images to one PDF      (I2p* action)                   *)
(* Strings are sequences of one-character strings, so that slugify, zfill, *)
(* str(), Path.stem / Path.suffix and the sort of the file list are        *)
(* computed character by character, as the code computes them.             *)
(* The filesystem is POSIX (case-sensitive names, no symbolic links), and  *)
(* the renamer's folder is flat, so a path is its file name.               *)
(***************************************************************************)
EXTENDS Integers, Sequences, FiniteSets, TLC

----------------------------------------------------------------------------
(* Bounds of the model.                                                    *)

\* Largest number of files in the renamer's folder.
MaxFiles == 3
\* Sequential mode: --start ranges over -MaxStart .. MaxStart.
MaxStart == 1000
\* slugify: longest input string.
MaxLen == 4
\* PDF utilities: largest page count of the input document.
MaxPages == 4
\* PDF utilities: page arguments range over -1 .. MaxPages + PageSlack.
PageSlack == 2
\* img2pdf: largest number of input images.
MaxImages == 2

----------------------------------------------------------------------------
(* Characters and strings.                                                 *)

\* The characters of the model in code-point order (Python compares str
\* and Path parts by code point).
CharOrder ==
  << " ", ",", "-", ".", "0", "1", "2", "3", "4", "5", "6", "7", "8", "9",
     "A", "B", "D", "F", "M", "P", "T", "X", "_",
     "a", "b", "c", "d", "f", "m", "p", "t", "x" >>

Ord(c) == CHOOSE i \in 1..Len(CharOrder) : CharOrder[i] = c

DigitChars == << "0", "1", "2", "3", "4", "5", "6", "7", "8", "9" >>

UpperOf ==
  [ a |-> "A", b |-> "B", d |-> "D", f |-> "F", m |-> "M", p |-> "P", t |-> "T", x |-> "X" ]

LowerLetters == DOMAIN UpperOf
UpperLetters == { UpperOf[l] : l \in LowerLetters }
Letters == LowerLetters \cup UpperLetters \cup {"c", "o"}
Digits == { DigitChars[i] : i \in 1..10 }

\* str.lower() on one character, then on a string.
LowerChar(c) ==
  IF c \in UpperLetters THEN CHOOSE l \in LowerLetters : UpperOf[l] = c ELSE c

Lower(s) == [ i \in 1..Len(s) |-> LowerChar(s[i]) ]

\* The regex class [\w\-\.]: letters, digits, underscore, hyphen, dot.
IsSlugChar(c) == c \in Letters \cup Digits \cup {"_", "-", "."}

\* s < t for strings, by code point, a proper prefix first.
RECURSIVE LexLess(_, _)
LexLess(s, t) ==
  IF t = << >> THEN FALSE
  ELSE IF s = << >> THEN TRUE
  ELSE IF s[1] # t[1] THEN Ord(s[1]) < Ord(t[1])
  ELSE LexLess(Tail(s), Tail(t))

\* sorted(files)
RECURSIVE Sorted(_)
Sorted(S) ==
  IF S = {} THEN << >>
  ELSE LET m == CHOOSE x \in S : \A y \in S \ {x} : LexLess(x, y)
       IN  << m >> \o Sorted(S \ {m})

\* str(n) for an int n.
RECURSIVE NatStr(_)
NatStr(n) ==
  IF n < 10 THEN << DigitChars[n + 1] >>
  ELSE NatStr(n \div 10) \o << DigitChars[(n % 10) + 1] >>

Str(n) == IF n < 0 THEN << "-" >> \o NatStr(-n) ELSE NatStr(n)

Zeros(n) == [ i \in 1..n |-> "0" ]

\* str.zfill(width): zeros go after a leading sign; never truncates.
Zfill(s, width) ==
  IF Len(s) >= width THEN s
  ELSE IF s # << >> /\ s[1] \in {"-", "+"}
       THEN << s[1] >> \o Zeros(width - Len(s)) \o Tail(s)
       ELSE Zeros(width - Len(s)) \o s

Max(a, b) == IF a >= b THEN a ELSE b
Min(a, b) == IF a <= b THEN a ELSE b

\* s.startswith(p), s.endswith(p)
StartsWith(s, p) == Len(s) >= Len(p) /\ SubSeq(s, 1, Len(p)) = p
EndsWith(s, p) == Len(s) >= Len(p) /\ SubSeq(s, Len(s) - Len(p) + 1, Len(s)) = p

\* str.strip(chars) for a set of characters.
RECURSIVE LStrip(_, _)
LStrip(s, cs) == IF s # << >> /\ s[1] \in cs THEN LStrip(Tail(s), cs) ELSE s
RECURSIVE RStrip(_, _)
RStrip(s, cs) ==
  IF s # << >> /\ s[Len(s)] \in cs THEN RStrip(SubSeq(s, 1, Len(s) - 1), cs) ELSE s
Strip(s, cs) == RStrip(LStrip(s, cs), cs)

\* str.replace(old, new): leftmost non-overlapping occurrences; an empty
\* old matches before every character and at the end.
RECURSIVE ReplaceNonEmpty(_, _, _)
ReplaceNonEmpty(s, old, new) ==
  IF s = << >> THEN << >>
  ELSE IF StartsWith(s, old)
       THEN new \o ReplaceNonEmpty(SubSeq(s, Len(old) + 1, Len(s)), old, new)
       ELSE << s[1] >> \o ReplaceNonEmpty(Tail(s), old, new)

RECURSIVE ReplaceEmpty(_, _)
ReplaceEmpty(s, new) ==
  IF s = << >> THEN new ELSE new \o << s[1] >> \o ReplaceEmpty(Tail(s), new)

Replace(s, old, new) ==
  IF old = << >> THEN ReplaceEmpty(s, new) ELSE ReplaceNonEmpty(s, old, new)

\* Index of the last "." of a name, 0 when there is none (str.rfind + 1).
RECURSIVE RFindDot(_)
RFindDot(s) ==
  IF s = << >> THEN 0
  ELSE IF s[Len(s)] = "." THEN Len(s)
  ELSE RFindDot(SubSeq(s, 1, Len(s) - 1))

\* Path.suffix and Path.stem of a file name: the suffix starts at the last
\* dot unless that dot is the first or the last character.
HasSuffix(name) == 1 < RFindDot(name) /\ RFindDot(name) < Len(name)
Suffix(name) ==
  IF HasSuffix(name) THEN SubSeq(name, RFindDot(name), Len(name)) ELSE << >>
Stem(name) ==
  IF HasSuffix(name) THEN SubSeq(name, 1, RFindDot(name) - 1) ELSE name

\* Path.with_suffix(ext): the name with its suffix replaced by ext.
WithSuffix(name, ext) == Stem(name) \o ext

----------------------------------------------------------------------------
(* rename_file.py: the pure helpers.                                       *)

\* re.sub(r'[^\w\-\.]', '_', name)
SubNonSlug(s) == [ i \in 1..Len(s) |-> IF IsSlugChar(s[i]) THEN s[i] ELSE "_" ]

\* re.sub(r'_{2,}', '_', name)
RECURSIVE CollapseUnderscores(_)
CollapseUnderscores(s) ==
  IF Len(s) < 2 THEN s
  ELSE IF s[1] = "_" /\ s[2] = "_" THEN CollapseUnderscores(Tail(s))
  ELSE << s[1] >> \o CollapseUnderscores(Tail(s))

\* A slugify that strips the underscores before it substitutes.
slugify_strip_first(name) == CollapseUnderscores(SubNonSlug(Strip(name, {"_"})))

slugify(name) == Strip(CollapseUnderscores(SubNonSlug(name)), {"_"})

\* The while loop of unique_path, from counter i on.
RECURSIVE probe(_, _, _, _)
probe(exists, stem, suffix, i) ==
  LET candidate == stem \o << "_" >> \o Str(i) \o suffix
  IN  IF candidate \notin exists THEN candidate
      ELSE probe(exists, stem, suffix, i + 1)

\* A unique_path whose counter starts at 2.
unique_path_from_2(exists, dest) ==
  IF dest \notin exists THEN dest ELSE probe(exists, Stem(dest), Suffix(dest), 2)

\* A unique_path that does not look at the disk.
unique_path_unchecked(exists, dest) == dest

\* unique_path(dest), given the set of paths that exist on disk.
unique_path(exists, dest) ==
  IF dest \notin exists THEN dest ELSE probe(exists, Stem(dest), Suffix(dest), 1)

\* norm_ext(ext)
norm_ext(ext) ==
  IF ext = << >> THEN << >>
  ELSE IF StartsWith(ext, << "." >>) THEN ext ELSE << "." >> \o ext

\* s.split(',')
RECURSIVE SplitComma(_)
SplitComma(s) ==
  IF \A i \in 1..Len(s) : s[i] # "," THEN << s >>
  ELSE LET j == CHOOSE i \in 1..Len(s) :
                  s[i] = "," /\ \A h \in 1..(i - 1) : s[h] # ","
       IN  << SubSeq(s, 1, j - 1) >> \o SplitComma(SubSeq(s, j + 1, Len(s)))

\* Python's None where a string is expected, and where a set is expected.
None == << "None" >>
NoneSet == { None }

\* parse_src_exts(s): None, or the set of normalised lower-case extensions.
parse_src_exts(s) ==
  IF s = None \/ s = << >> THEN NoneSet
  ELSE LET raw == SplitComma(s)
           parts == { Strip(raw[i], {" "}) : i \in 1..Len(raw) } \ { << >> }
       IN  { Lower(norm_ext(p)) : p \in parts }

\* Sequential mode: the zero-padding width.
seq_width(total, start) == Max(3, Len(Str(total + start)))

\* Sequential mode: the rendered index field, str(idx).zfill(width).
seq_field(idx, width) == Zfill(Str(idx), width)

\* Sequential mode: the destination of file f with index idx.
seq_dest(f, idx, width, prefix, change_ext) ==
  LET dest == prefix \o seq_field(idx, width) \o Suffix(f)
  IN  IF change_ext # << >> THEN WithSuffix(dest, change_ext) ELSE dest

\* The new stem of the non-sequential modes.
new_stem(f, mode, replace_from, replace_to) ==
  IF mode = "slugify" THEN slugify(Stem(f))
  ELSE IF mode = "lowercase" THEN Lower(Stem(f))
  ELSE IF mode = "replace"
       THEN Replace(Stem(f), replace_from, IF replace_to = None THEN << >> ELSE replace_to)
  ELSE Stem(f)

\* The destination of file f in the non-sequential modes.
mode_dest(f, mode, replace_from, replace_to, change_ext) ==
  new_stem(f, mode, replace_from, replace_to)
    \o (IF change_ext # << >> THEN change_ext ELSE Suffix(f))

----------------------------------------------------------------------------
(* rename_file.py: the state of one run of main().                         *)

VARIABLES
  args,       \* the parsed command line
  folderOk,   \* root.exists() and root.is_dir()
  fs0,        \* the files of the folder when the run starts
  fs,         \* the folder now: file name |-> the original name of its content
  files,      \* the sorted, filtered file list
  change_ext, \* the normalised --change-ext, << >> when absent
  mapping,    \* the dict, in insertion order: [src, dest]
  rendered,   \* sequential mode: [idx, field, width] per file
  k,          \* apply loop: position in mapping.items()
  resolved,   \* apply loop: what each iteration computed and did
  printed,    \* the "src -> dest" lines printed
  rpc,        \* where main() is: start, build, apply, exit
  rexit       \* the exit: [code, msg]

renVars == << args, folderOk, fs0, fs, files, change_ext, mapping, rendered,
              k, resolved, printed, rpc, rexit >>

(* slugify applied repeatedly to one string.                               *)
VARIABLES
  slugIn,     \* the string slugify is first applied to
  slugOut     \* the results of the applications so far, oldest first

slugVars == << slugIn, slugOut >>

(* split_pdf.py, pdf2img.py, img2pdf.py: the state of one run of main().   *)
VARIABLES
  util,       \* which entry point runs: pdf2img, split, extract, img2pdf
  pargs,      \* the parsed command line
  penv,       \* the disk and the input document as the run finds them
  ppc,        \* where main() is: start, loop, exit
  cur,        \* the loop variable (a 0-based page index)
  hi,         \* pdf2img: the last 0-based page index of the range
  parts,      \* split: per part [index, pages, saved]
  newpdf,     \* extract: the pages inserted into new_pdf (0-based indices)
  requested,  \* the 0-based page indices asked of the input document
  pmut,       \* the filesystem mutations so far, in order
  perr,       \* what went wrong, "" when nothing did
  pstderr,    \* the messages written to stderr
  pstdout,    \* the messages written to stdout
  pexit       \* the process exit code, -1 while running

pdfVars == << util, pargs, penv, ppc, cur, hi, parts, newpdf, requested,
              pmut, perr, pstderr, pstdout, pexit >>

vars == << renVars, slugVars, pdfVars >>

Running == [ code |-> -1, msg |-> "" ]
Exit(code, msg) == [ code |-> code, msg |-> msg ]

\* Lines 65-81: the folder check, collect_files, the --src-ext filter and
\* the normalisation of --change-ext.
RenCollect ==
  /\ rpc = "start"
  /\ LET all == Sorted(DOMAIN fs)
         src_exts == parse_src_exts(args.src_ext)
         kept == IF src_exts = NoneSet THEN all
                 ELSE SelectSeq(all, LAMBDA f : Lower(Suffix(f)) \in src_exts)
     IN  IF ~folderOk
         THEN /\ rexit' = Exit(1, "Folder not found")
              /\ rpc' = "exit"
              /\ UNCHANGED << files, change_ext >>
         ELSE IF all = << >>
         THEN /\ rexit' = Exit(0, "No files found.")
              /\ rpc' = "exit"
              /\ UNCHANGED << files, change_ext >>
         ELSE IF kept = << >>
         THEN /\ rexit' = Exit(0, "No files matched the given source extension(s).")
              /\ rpc' = "exit"
              /\ files' = kept
              /\ UNCHANGED change_ext
         ELSE /\ files' = kept
              /\ change_ext' = (IF args.change_ext # None /\ args.change_ext # << >>
                                THEN norm_ext(args.change_ext) ELSE << >>)
              /\ rpc' = "build"
              /\ UNCHANGED rexit
  /\ UNCHANGED << args, folderOk, fs0, fs, mapping, rendered, k, resolved, printed >>
  /\ UNCHANGED << slugVars, pdfVars >>

\* Lines 83-114: the mapping, built in memory, or a SystemExit / ValueError.
RenBuild ==
  /\ rpc = "build"
  /\ LET n == Len(files)
         width == seq_width(n, args.start)
         dests ==
           IF args.only_ext
           THEN [ i \in 1..n |-> WithSuffix(files[i], change_ext) ]
           ELSE IF args.mode = "sequential"
           THEN [ i \in 1..n |->
                    seq_dest(files[i], args.start + i - 1, width, args.prefix, change_ext) ]
           ELSE [ i \in 1..n |->
                    mode_dest(files[i], args.mode, args.replace_from, args.replace_to,
                              change_ext) ]
     IN  IF args.only_ext /\ change_ext = << >>
         THEN /\ rexit' = Exit(1, "--only-ext requires --change-ext to be provided")
              /\ rpc' = "exit"
              /\ UNCHANGED << mapping, rendered >>
         ELSE IF ~args.only_ext /\ args.mode = "replace" /\ args.replace_from = None
         THEN /\ rexit' = Exit(1, "replace mode requires --replace-from")
              /\ rpc' = "exit"
              /\ UNCHANGED << mapping, rendered >>
         ELSE IF \E i \in 1..n : dests[i] = << >>
         THEN \* Path.with_name('') raises ValueError, which nothing catches
              /\ rexit' = Exit(1, "ValueError: Invalid name")
              /\ rpc' = "exit"
              /\ UNCHANGED << mapping, rendered >>
         ELSE /\ mapping' = [ i \in 1..n |-> [ src |-> files[i], dest |-> dests[i] ] ]
              /\ rendered' =
                   (IF ~args.only_ext /\ args.mode = "sequential"
                    THEN [ i \in 1..n |->
                             [ idx |-> args.start + i - 1,
                               field |-> seq_field(args.start + i - 1, width),
                               width |-> width ] ]
                    ELSE << >>)
              /\ rpc' = "apply"
              /\ UNCHANGED rexit
  /\ UNCHANGED << args, folderOk, fs0, fs, files, change_ext, k, resolved, printed >>
  /\ UNCHANGED << slugVars, pdfVars >>

\* os.rename(src, dest) on the folder: dest takes the content of src,
\* replacing a file that was there.
os_rename(folder, src, dest) ==
  [ f \in (DOMAIN folder \ {src}) \cup {dest} |->
      IF f = dest THEN folder[src] ELSE folder[f] ]

\* Lines 117-124: one iteration of the apply loop.  os.rename raises when
\* the source is gone (FileNotFoundError) or when the system refuses the
\* move (another OSError); nothing catches it, so the run ends there with a
\* traceback and exit code 1, the folder as the earlier iterations left it.
RenApply ==
  /\ rpc = "apply"
  /\ k <= Len(mapping)
  /\ \E moved \in BOOLEAN :
       LET src == mapping[k].src
           tentative_dest == mapping[k].dest
           dest == unique_path(DOMAIN fs, tentative_dest)
           skip == (src = dest)
           called == ~skip /\ ~args.dry_run
           landed == called /\ moved /\ src \in DOMAIN fs
           entry == [ src |-> src, tentative |-> tentative_dest, dest |-> dest,
                      existing |-> DOMAIN fs, skipped |-> skip,
                      called |-> called, landed |-> landed ]
       IN  /\ resolved' = Append(resolved, entry)
           /\ IF skip
              THEN /\ k' = k + 1
                   /\ UNCHANGED << printed, fs, rpc, rexit >>
              ELSE /\ printed' = Append(printed, << src, dest >>)
                   /\ IF args.dry_run
                      THEN /\ k' = k + 1
                           /\ UNCHANGED << fs, rpc, rexit >>
                      ELSE IF src \notin DOMAIN fs
                      THEN /\ rexit' = Exit(1, "FileNotFoundError")
                           /\ rpc' = "exit"
                           /\ UNCHANGED << fs, k >>
                      ELSE IF ~moved
                      THEN /\ rexit' = Exit(1, "OSError")
                           /\ rpc' = "exit"
                           /\ UNCHANGED << fs, k >>
                      ELSE /\ fs' = os_rename(fs, src, dest)
                           /\ k' = k + 1
                           /\ UNCHANGED << rpc, rexit >>
  /\ UNCHANGED << args, folderOk, fs0, files, change_ext, mapping, rendered >>
  /\ UNCHANGED << slugVars, pdfVars >>

\* The loop is exhausted: main() returns.
RenReturn ==
  /\ rpc = "apply"
  /\ k > Len(mapping)
  /\ rpc' = "exit"
  /\ rexit' = Exit(0, "")
  /\ UNCHANGED << args, folderOk, fs0, fs, files, change_ext, mapping, rendered,
                  k, resolved, printed >>
  /\ UNCHANGED << slugVars, pdfVars >>

----------------------------------------------------------------------------
(* rename_file.py: the runs explored.                                      *)

\* The file names a folder is drawn from.
NamePool ==
  { << "a", ".", "T", "X", "T" >>,
    << "b", ".", "t", "x", "t" >>,
    << "c", ".", "m", "d" >>,
    << "A", ".", "t", "x", "t" >>,
    << "a", ".", "t", "x", "t" >>,
    << "a", ".", "m", "d" >>,
    << "a", " ", "b", ".", "t", "x", "t" >>,
    << "a", "_", "b", ".", "t", "x", "t" >>,
    << "a", "_", "1", ".", "t", "x", "t" >>,
    << "0", "0", "1", ".", "t", "x", "t" >>,
    << "_" >> }

Folders == { S \in SUBSET NamePool : Cardinality(S) <= MaxFiles }

\* argparse's defaults.
DefaultArgs ==
  [ mode |-> "slugify", prefix |-> << >>, replace_from |-> None, replace_to |-> None,
    start |-> 1, dry_run |-> FALSE, change_ext |-> None, only_ext |-> FALSE,
    src_ext |-> None ]

ExtArgs == { None, << "p", "d", "f" >>, << ".", "p", "d", "f" >> }
SrcExtArgs == { None, << "t", "x", "t" >>, << ".", "T", "X", "T", ",", " ", "m", "d" >> }

\* The option combinations explored: an option a mode does not read keeps
\* its default.
ModeArgs ==
  { [ DefaultArgs EXCEPT !.only_ext = TRUE, !.change_ext = e, !.mode = m ] :
      e \in ExtArgs, m \in {"slugify", "replace"} }
  \cup
  { [ DefaultArgs EXCEPT !.mode = "sequential", !.start = s, !.prefix = p, !.change_ext = e ] :
      s \in {0, 1}, p \in { << >>, << "x" >> }, e \in { None, << "p", "d", "f" >> } }
  \cup
  { [ DefaultArgs EXCEPT !.mode = m, !.change_ext = e ] :
      m \in {"slugify", "lowercase"}, e \in { None, << "p", "d", "f" >> } }
  \cup
  { [ DefaultArgs EXCEPT !.mode = "replace", !.replace_from = f, !.replace_to = t ] :
      f \in { None, << "a" >>, << >> }, t \in { None, << "b" >> } }

RenArgs ==
  { [ a EXCEPT !.src_ext = s, !.dry_run = d ] :
      a \in ModeArgs, s \in SrcExtArgs, d \in BOOLEAN }

\* The state main() starts in, for a folder and a command line.
RenStart(folder, a, ok) ==
  /\ args = a
  /\ folderOk = ok
  /\ fs0 = folder
  /\ fs = [ f \in folder |-> f ]
  /\ files = << >>
  /\ change_ext = << >>
  /\ mapping = << >>
  /\ rendered = << >>
  /\ k = 1
  /\ resolved = << >>
  /\ printed = << >>
  /\ rpc = "start"
  /\ rexit = Running

\* The other programs are not running.
RenIdle ==
  /\ args = DefaultArgs /\ folderOk = FALSE /\ fs0 = {} /\ fs = << >> /\ files = << >>
  /\ change_ext = << >> /\ mapping = << >> /\ rendered = << >> /\ k = 1
  /\ resolved = << >> /\ printed = << >> /\ rpc = "idle" /\ rexit = Running

SlugIdle == slugIn = << >> /\ slugOut = << >>

PdfIdle ==
  /\ util = "none"
  /\ pargs = << >>
  /\ penv = << >>
  /\ ppc = "idle"
  /\ cur = 0
  /\ hi = 0
  /\ parts = << >>
  /\ newpdf = << >>
  /\ requested = {}
  /\ pmut = << >>
  /\ perr = ""
  /\ pstderr = << >>
  /\ pstdout = << >>
  /\ pexit = -1

InitRename ==
  /\ \E folder \in Folders, a \in RenArgs, ok \in BOOLEAN : RenStart(folder, a, ok)
  /\ SlugIdle
  /\ PdfIdle

NextRename == RenCollect \/ RenBuild \/ RenApply \/ RenReturn

SpecRename == InitRename /\ [][NextRename]_vars

\* Sequential mode over the whole range of --start (argparse's type=int
\* accepts negative numbers), on folders of plain names.
SeqPool ==
  { << "b", ".", "t", "x", "t" >>, << "c", ".", "m", "d" >>,
    << "a", ".", "T", "X", "T" >>, << "a", ".", "m", "d" >> }

InitSeq ==
  /\ SlugIdle
  /\ PdfIdle
  /\ \E folder \in { S \in Folders : S \subseteq SeqPool },
     s \in (-MaxStart)..MaxStart, d \in BOOLEAN :
    RenStart(folder, [ DefaultArgs EXCEPT !.mode = "sequential", !.start = s, !.dry_run = d ],
             TRUE)

SpecSeq == InitSeq /\ [][NextRename]_vars

----------------------------------------------------------------------------
(* slugify on every string of at most MaxLen characters.                   *)

SlugChars == { "a", "_", " ", "-", "." }

RECURSIVE StringsUpTo(_)
StringsUpTo(n) ==
  IF n = 0 THEN { << >> }
  ELSE LET shorter == StringsUpTo(n - 1)
       IN  shorter \cup { Append(x, c) : x \in shorter, c \in SlugChars }

InitSlug ==
  /\ slugIn \in StringsUpTo(MaxLen)
  /\ slugOut = << >>
  /\ PdfIdle
  /\ RenIdle

\* One more application of slugify: to the input, then to its own result.
SlugApply ==
  /\ Len(slugOut) < 2
  /\ slugOut' = Append(slugOut, slugify(IF slugOut = << >> THEN slugIn ELSE slugOut[Len(slugOut)]))
  /\ UNCHANGED << slugIn, renVars, pdfVars >>

SpecSlug == InitSlug /\ [][SlugApply]_vars

----------------------------------------------------------------------------
(* split_pdf.py, pdf2img.py, img2pdf.py: helpers.                          *)

DotPdf == << ".", "p", "d", "f" >>

\* path.lower().endswith(".pdf")
IsPdfName(path) == EndsWith(Lower(path), DotPdf)

\* The tuple of image extensions img2pdf recognises.
ImageExts ==
  { << ".", "p", "n", "g" >>, << ".", "j", "p", "g" >>, << ".", "j", "p", "e", "g" >>,
    << ".", "g", "i", "f" >>, << ".", "b", "m", "p" >>, << ".", "t", "i", "f", "f" >> }

\* name.lower().endswith((".png", ".jpg", ...))
IsImageName(name) == \E e \in ImageExts : EndsWith(Lower(name), e)

\* os.path.dirname(path): what precedes the last "/", "" when there is none.
RECURSIVE DirName(_)
DirName(path) ==
  IF path = << >> THEN << >>
  ELSE IF path[Len(path)] = "/" THEN SubSeq(path, 1, Len(path) - 1)
  ELSE DirName(SubSeq(path, 1, Len(path) - 1))

\* The 0-based page indices lo..hi in order (range(lo, hi + 1)).
PageRange(lo, up) == [ i \in 1..(up - lo + 1) |-> lo + i - 1 ]

\* new_pdf.insert_pdf(doc, from_page, to_page) on a document of total pages:
\* the indices copied; PyMuPDF takes a to_page outside the document as its
\* last page.
insert_pdf(total, from_page, to_page) ==
  PageRange(Max(from_page, 0), IF to_page < 0 \/ to_page > total - 1 THEN total - 1 ELSE to_page)

\* A split whose chunk ends one page late.
split_end_idx_late(start_page_idx, pages_per_file, total_pages) ==
  Min(start_page_idx + pages_per_file, total_pages)

\* split_pdf: end_page_idx of the chunk that starts at start_page_idx.
split_end_idx(start_page_idx, pages_per_file, total_pages) ==
  Min(start_page_idx + pages_per_file, total_pages) - 1

\* An extract that clamps to the page before the last.
clamp_end_page_short(end_page, total_pages) ==
  IF end_page > total_pages THEN total_pages - 1 ELSE end_page

\* extract_pages: end_page after the adjustment to the document's length.
clamp_end_page(end_page, total_pages) ==
  IF end_page > total_pages THEN total_pages ELSE end_page

\* The unchanged part of a step that ends the run.
PdfExit(code, err, msgs) ==
  /\ ppc' = "exit"
  /\ pexit' = code
  /\ perr' = err
  /\ pstderr' = pstderr \o msgs

MkDir == [ op |-> "mkdir" ]
WriteFile(what) == [ op |-> "write", pages |-> what ]

----------------------------------------------------------------------------
(* pdf2img.py                                                              *)

\* main() up to the page loop: the two input checks, then
\* convert_pdf_to_images lines 19-40.
P2iMain ==
  /\ util = "pdf2img" /\ ppc = "start"
  /\ \E mk \in BOOLEAN, op \in BOOLEAN :
       LET page_count == penv.pages
           start == IF pargs.first = << >> THEN 0 ELSE Max(0, pargs.first[1] - 1)
           end == IF pargs.last = << >> THEN page_count - 1
                  ELSE Min(page_count - 1, pargs.last[1] - 1)
           made == IF penv.outdir THEN << >> ELSE << MkDir >>
           said == IF ~penv.outdir /\ pargs.verbose THEN << "Created output directory" >> ELSE << >>
       IN  IF ~penv.exists
           THEN /\ PdfExit(2, "not_found", << "Error: PDF file not found" >>)
                /\ UNCHANGED << cur, hi, pmut, pstdout >>
           ELSE IF ~IsPdfName(pargs.input)
           THEN /\ PdfExit(3, "not_pdf", << "Error: not a PDF" >>)
                /\ UNCHANGED << cur, hi, pmut, pstdout >>
           ELSE IF ~penv.outdir /\ ~mk
           THEN \* os.makedirs raises; main's except Exception returns 1
                /\ PdfExit(1, "mkdir_failed", << "Error converting PDF" >>)
                /\ UNCHANGED << cur, hi, pmut, pstdout >>
           ELSE IF ~op
           THEN /\ PdfExit(1, "open_failed", << "Error converting PDF" >>)
                /\ pmut' = pmut \o made
                /\ pstdout' = pstdout \o said
                /\ UNCHANGED << cur, hi >>
           ELSE IF start > end
           THEN /\ PdfExit(1, "bad_range", << "Error converting PDF" >>)
                /\ pmut' = pmut \o made
                /\ pstdout' = pstdout \o said
                /\ UNCHANGED << cur, hi >>
           ELSE /\ ppc' = "loop"
                /\ cur' = start
                /\ hi' = end
                /\ pmut' = pmut \o made
                /\ pstdout' = pstdout \o said
                       \o (IF pargs.verbose THEN << "Converting" >> ELSE << >>)
                /\ UNCHANGED << pexit, perr, pstderr >>
  /\ UNCHANGED << util, pargs, penv, parts, newpdf, requested >>
  /\ UNCHANGED << renVars, slugVars >>

\* One iteration of the page loop, lines 43-50: pix.save may raise, which
\* ends the run with exit code 1.
P2iPage ==
  /\ util = "pdf2img" /\ ppc = "loop" /\ cur <= hi
  /\ requested' = requested \cup {cur}
  /\ \E ok \in BOOLEAN :
       IF ok
       THEN /\ pmut' = Append(pmut, WriteFile(<< cur >>))
            /\ pstdout' = pstdout \o (IF pargs.verbose THEN << "Saved" >> ELSE << >>)
            /\ cur' = cur + 1
            /\ UNCHANGED << ppc, pexit, perr, pstderr >>
       ELSE /\ PdfExit(1, "save_failed", << "Error converting PDF" >>)
            /\ UNCHANGED << pmut, pstdout, cur >>
  /\ UNCHANGED << util, pargs, penv, hi, parts, newpdf >>
  /\ UNCHANGED << renVars, slugVars >>

\* The loop is exhausted: main() returns 0.
P2iDone ==
  /\ util = "pdf2img" /\ ppc = "loop" /\ cur > hi
  /\ PdfExit(0, "", << >>)
  /\ pstdout' = pstdout \o (IF pargs.verbose THEN << "Conversion completed" >> ELSE << >>)
  /\ UNCHANGED << util, pargs, penv, cur, hi, parts, newpdf, requested, pmut >>
  /\ UNCHANGED << renVars, slugVars >>

----------------------------------------------------------------------------
(* split_pdf.py: split                                                     *)

\* split_pdf lines 18-40, under main()'s try: a FileNotFoundError,
\* ValueError or RuntimeError returns 1; an OSError of os.makedirs is not
\* caught and ends the process with a traceback, exit code 1.
SplitStart ==
  /\ util = "split" /\ ppc = "start"
  /\ \E mk \in BOOLEAN, op \in BOOLEAN :
       LET made == IF penv.outdir THEN << >> ELSE << MkDir >>
           said == IF pargs.verbose THEN << "Output directory" >> ELSE << >>
       IN  IF ~penv.exists
           THEN /\ PdfExit(1, "not_found", << "Error: Input PDF not found" >>)
                /\ UNCHANGED << cur, pmut, pstdout >>
           ELSE IF ~IsPdfName(pargs.input)
           THEN /\ PdfExit(1, "not_pdf", << "Error: Input file is not a PDF" >>)
                /\ UNCHANGED << cur, pmut, pstdout >>
           ELSE IF pargs.pages_per_file <= 0
           THEN /\ PdfExit(1, "bad_arg", << "Error: pages_per_file must be a positive integer." >>)
                /\ UNCHANGED << cur, pmut, pstdout >>
           ELSE IF ~penv.outdir /\ ~mk
           THEN /\ PdfExit(1, "mkdir_failed", << "Traceback" >>)
                /\ UNCHANGED << cur, pmut, pstdout >>
           ELSE IF ~op
           THEN /\ PdfExit(1, "open_failed", << "Error: Error opening PDF" >>)
                /\ pmut' = pmut \o made
                /\ pstdout' = pstdout \o said
                /\ UNCHANGED cur
           ELSE /\ ppc' = "loop"
                /\ cur' = 0
                /\ pmut' = pmut \o made
                /\ pstdout' = pstdout \o said
                       \o (IF pargs.verbose THEN << "Splitting" >> ELSE << >>)
                /\ UNCHANGED << pexit, perr, pstderr >>
  /\ UNCHANGED << util, pargs, penv, hi, parts, newpdf, requested >>
  /\ UNCHANGED << renVars, slugVars >>

\* The pages the inner loop of lines 50-51 inserts, one insert_pdf a page.
RECURSIVE InsertEach(_, _, _)
InsertEach(total, page_num, end_page_idx) ==
  IF page_num > end_page_idx THEN << >>
  ELSE insert_pdf(total, page_num, page_num) \o InsertEach(total, page_num + 1, end_page_idx)

\* One iteration of the loop of lines 41-62: a part whose save fails is
\* warned about and the loop goes on.
SplitPart ==
  /\ util = "split" /\ ppc = "loop" /\ cur < penv.pages
  /\ LET start_page_idx == cur
         end_page_idx == split_end_idx(start_page_idx, pargs.pages_per_file, penv.pages)
         pages == InsertEach(penv.pages, start_page_idx, end_page_idx)
         file_index == Len(parts) + 1
     IN  /\ requested' = requested \cup (start_page_idx..end_page_idx)
         /\ \E ok \in BOOLEAN :
              /\ parts' = Append(parts, [ index |-> file_index, pages |-> pages, saved |-> ok ])
              /\ IF ok
                 THEN /\ pmut' = Append(pmut, WriteFile(pages))
                      /\ pstdout' = pstdout \o (IF pargs.verbose THEN << "Created" >> ELSE << >>)
                      /\ UNCHANGED pstderr
                 ELSE /\ pstderr' = Append(pstderr, "Warning: Could not save part")
                      /\ UNCHANGED << pmut, pstdout >>
         /\ cur' = cur + pargs.pages_per_file
  /\ UNCHANGED << util, pargs, penv, ppc, hi, newpdf, perr, pexit >>
  /\ UNCHANGED << renVars, slugVars >>

\* The loop is exhausted: split_pdf returns and main() returns 0.
SplitDone ==
  /\ util = "split" /\ ppc = "loop" /\ cur >= penv.pages
  /\ PdfExit(0, "", << >>)
  /\ pstdout' = pstdout \o (IF pargs.verbose THEN << "PDF splitting complete." >> ELSE << >>)
  /\ UNCHANGED << util, pargs, penv, cur, hi, parts, newpdf, requested, pmut >>
  /\ UNCHANGED << renVars, slugVars >>

----------------------------------------------------------------------------
(* split_pdf.py: extract                                                   *)

\* extract_pages under main()'s try.  Everything from insert_pdf to save is
\* inside a try whose except prints a warning, after which main() returns 0.
ExtractMain ==
  /\ util = "extract" /\ ppc = "start"
  /\ \E op \in BOOLEAN, mk \in BOOLEAN, sv \in BOOLEAN :
       LET total_pages == penv.pages
           start_page == pargs.start_page
           end_page == clamp_end_page(pargs.end_page, total_pages)
           adjusted == pargs.end_page > total_pages
           output_dir == DirName(pargs.output)
           needdir == output_dir # << >> /\ ~penv.outdir
           pages == insert_pdf(total_pages, start_page - 1, end_page - 1)
           warn == IF adjusted /\ pargs.verbose
                   THEN << "Warning: End page exceeds total pages. Adjusting" >> ELSE << >>
           said == IF pargs.verbose THEN << "Extracting" >> ELSE << >>
       IN  IF ~penv.exists
           THEN /\ PdfExit(1, "not_found", << "Error: Input PDF not found" >>)
                /\ UNCHANGED << newpdf, requested, pmut, pstdout >>
           ELSE IF ~IsPdfName(pargs.input)
           THEN /\ PdfExit(1, "not_pdf", << "Error: Input file is not a PDF" >>)
                /\ UNCHANGED << newpdf, requested, pmut, pstdout >>
           ELSE IF ~IsPdfName(pargs.output)
           THEN /\ PdfExit(1, "bad_arg", << "Error: Output file must be a PDF" >>)
                /\ UNCHANGED << newpdf, requested, pmut, pstdout >>
           ELSE IF pargs.start_page <= 0 \/ pargs.end_page <= 0
           THEN /\ PdfExit(1, "bad_arg", << "Error: Page numbers must be positive integers." >>)
                /\ UNCHANGED << newpdf, requested, pmut, pstdout >>
           ELSE IF pargs.start_page > pargs.end_page
           THEN /\ PdfExit(1, "bad_arg", << "Error: Start page cannot be greater than end page." >>)
                /\ UNCHANGED << newpdf, requested, pmut, pstdout >>
           ELSE IF ~op
           THEN /\ PdfExit(1, "open_failed", << "Error: Error opening PDF" >>)
                /\ UNCHANGED << newpdf, requested, pmut, pstdout >>
           ELSE IF start_page > total_pages
           THEN /\ PdfExit(1, "bad_range", << "Error: Start page exceeds total pages" >>)
                /\ UNCHANGED << newpdf, requested, pmut, pstdout >>
           ELSE /\ newpdf' = pages
                /\ requested' = requested \cup ((start_page - 1)..(end_page - 1))
                /\ IF needdir /\ ~mk
                   THEN /\ PdfExit(0, "mkdir_failed",
                                   warn \o << "Warning: Could not save extracted PDF" >>)
                        /\ pstdout' = pstdout \o said
                        /\ UNCHANGED pmut
                   ELSE IF ~sv
                   THEN /\ PdfExit(0, "save_failed",
                                   warn \o << "Warning: Could not save extracted PDF" >>)
                        /\ pstdout' = pstdout \o said
                        /\ pmut' = pmut \o (IF needdir THEN << MkDir >> ELSE << >>)
                   ELSE /\ PdfExit(0, "", warn)
                        /\ pstdout' = pstdout \o said
                               \o (IF pargs.verbose THEN << "Successfully created" >> ELSE << >>)
                        /\ pmut' = pmut \o (IF needdir THEN << MkDir >> ELSE << >>)
                               \o << WriteFile(pages) >>
  /\ UNCHANGED << util, pargs, penv, cur, hi, parts >>
  /\ UNCHANGED << renVars, slugVars >>

----------------------------------------------------------------------------
(* img2pdf.py                                                              *)

\* main(): the input is a directory, a file or neither; the images that
\* open are saved as one PDF.  penv.listing is the directory's content (or
\* the one file), penv.opens the files that Image.open accepts.
I2pMain ==
  /\ util = "img2pdf" /\ ppc = "start"
  /\ \E sv \in BOOLEAN :
       LET listed == Sorted(penv.listing)
           image_paths == IF penv.kind = "dir" THEN SelectSeq(listed, IsImageName)
                          ELSE << pargs.input >>
           images == SelectSeq(image_paths, LAMBDA f : f \in penv.opens)
           warns == [ i \in 1..(Len(image_paths) - Len(images)) |->
                        "Warning: Could not open or convert image" ]
           said == IF pargs.verbose
                   THEN [ i \in 1..Len(image_paths) |-> "Processing image" ] ELSE << >>
       IN  IF penv.kind = "dir" /\ image_paths = << >>
           THEN /\ PdfExit(1, "no_images", << "Error: No image files found in directory" >>)
                /\ UNCHANGED << pmut, pstdout >>
           ELSE IF penv.kind = "file" /\ ~IsImageName(pargs.input)
           THEN /\ PdfExit(1, "not_image", << "Error: not a recognized image format" >>)
                /\ UNCHANGED << pmut, pstdout >>
           ELSE IF penv.kind = "none"
           THEN /\ PdfExit(1, "not_found", << "Error: neither a file nor a directory" >>)
                /\ UNCHANGED << pmut, pstdout >>
           ELSE IF images = << >>
           THEN /\ PdfExit(1, "open_failed", warns \o << "Error: No valid images" >>)
                /\ pstdout' = pstdout \o said
                /\ UNCHANGED pmut
           ELSE IF ~sv
           THEN /\ PdfExit(1, "save_failed", warns \o << "Error: Error saving PDF" >>)
                /\ pstdout' = pstdout \o said
                /\ UNCHANGED pmut
           ELSE /\ PdfExit(0, "", warns)
                /\ pstdout' = pstdout \o said
                       \o (IF pargs.verbose THEN << "Successfully created PDF" >> ELSE << >>)
                /\ pmut' = Append(pmut, WriteFile(images))
  /\ UNCHANGED << util, pargs, penv, cur, hi, parts, newpdf, requested >>
  /\ UNCHANGED << renVars, slugVars >>

----------------------------------------------------------------------------
(* The PDF utilities: the runs explored.                                   *)

dpdf == << "d", ".", "p", "d", "f" >>
dPDF == << "d", ".", "P", "D", "F" >>
dtxt == << "d", ".", "t", "x", "t" >>
opdf == << "o", ".", "p", "d", "f" >>
xopdf == << "x", "/", "o", ".", "p", "d", "f" >>
otxt == << "o", ".", "t", "x", "t" >>

PageArgs == (-1)..(MaxPages + PageSlack)
OptPageArgs == { << >> } \cup { << n >> : n \in PageArgs }

DefaultPargs ==
  [ input |-> dpdf, output |-> opdf, first |-> << >>, last |-> << >>,
    pages_per_file |-> 1, start_page |-> 1, end_page |-> 1, verbose |-> FALSE ]

DocEnvs ==
  [ exists : BOOLEAN, pages : 0..MaxPages, outdir : BOOLEAN ]

ImagePool ==
  { << "a", ".", "b", "m", "p" >>, << "b", ".", "B", "M", "P" >>, << "c", ".", "t", "x", "t" >> }

ImageEnvs ==
  { [ kind |-> kd, listing |-> l, opens |-> o ] :
      kd \in {"dir", "file", "none"},
      l \in { S \in SUBSET ImagePool : Cardinality(S) <= MaxImages },
      o \in SUBSET ImagePool }

PdfStart(u, a, e) ==
  /\ util = u
  /\ pargs = a
  /\ penv = e
  /\ ppc = "start"
  /\ cur = 0
  /\ hi = 0
  /\ parts = << >>
  /\ newpdf = << >>
  /\ requested = {}
  /\ pmut = << >>
  /\ perr = ""
  /\ pstderr = << >>
  /\ pstdout = << >>
  /\ pexit = -1

InitPdf ==
  /\ RenIdle
  /\ SlugIdle
  /\ \/ \E i \in {dpdf, dPDF, dtxt}, f \in OptPageArgs, l \in OptPageArgs,
           v \in BOOLEAN, e \in DocEnvs :
          PdfStart("pdf2img",
                   [ DefaultPargs EXCEPT !.input = i, !.first = f, !.last = l, !.verbose = v ], e)
     \/ \E i \in {dpdf, dPDF, dtxt}, n \in PageArgs, v \in BOOLEAN, e \in DocEnvs :
          PdfStart("split",
                   [ DefaultPargs EXCEPT !.input = i, !.pages_per_file = n, !.verbose = v ], e)
     \/ \E i \in {dpdf, dtxt}, o \in {opdf, xopdf, otxt}, s \in PageArgs, t \in PageArgs,
           v \in BOOLEAN, e \in DocEnvs :
          PdfStart("extract",
                   [ DefaultPargs EXCEPT !.input = i, !.output = o, !.start_page = s,
                                         !.end_page = t, !.verbose = v ], e)
     \/ \E i \in ImagePool, v \in BOOLEAN, e \in ImageEnvs :
          PdfStart("img2pdf", [ DefaultPargs EXCEPT !.input = i, !.verbose = v ], e)

NextPdf ==
  \/ P2iMain \/ P2iPage \/ P2iDone
  \/ SplitStart \/ SplitPart \/ SplitDone
  \/ ExtractMain
  \/ I2pMain

SpecPdf == InitPdf /\ [][NextPdf]_vars

----------------------------------------------------------------------------
(* rename_file.py: the claims.                                             *)

aTXT == << "a", ".", "T", "X", "T" >>
btxt == << "b", ".", "t", "x", "t" >>
cmd  == << "c", ".", "m", "d" >>

\* The folder is as the run found it: every file under its original name.
Untouched == fs = [ f \in fs0 |-> f ]

\* C1: in the apply loop a matched file whose policy-computed destination
\* equals its current path is skipped: no line is printed for it and it
\* still exists under its original name; in particular, with files a.TXT,
\* b.txt, c.md, --src-ext txt and --mode lowercase, no file is renamed and
\* c.md is never considered.
C1_SameNameSkipped ==
  /\ \A i \in 1..Len(resolved) :
       resolved[i].tentative = resolved[i].src =>
         /\ resolved[i].skipped
         /\ \A j \in 1..Len(printed) : printed[j][1] # resolved[i].src
         /\ resolved[i].src \in DOMAIN fs
  /\ ( /\ fs0 = {aTXT, btxt, cmd}
       /\ args = [ DefaultArgs EXCEPT !.mode = "lowercase", !.src_ext = << "t", "x", "t" >> ]
       /\ folderOk
       /\ rpc = "exit" )
     => /\ Untouched
        /\ printed = << >>
        /\ \A i \in 1..Len(resolved) : resolved[i].src # cmd

\* C2: in any run, dry or not, the resolved destinations the apply loop
\* computes for two distinct source files are never the same path.
C2_DistinctDestinations ==
  \A i, j \in 1..Len(resolved) :
    resolved[i].src # resolved[j].src => resolved[i].dest # resolved[j].dest

\* <stem>_<n><suffix> of a path.
Numbered(dest, n) == Stem(dest) \o << "_" >> \o Str(n) \o Suffix(dest)

\* The paths that exist after the first n iterations of the apply loop, by
\* the log of what they did.
RECURSIVE ExistingAfter(_)
ExistingAfter(n) ==
  IF n = 0 THEN fs0
  ELSE IF resolved[n].skipped \/ args.dry_run THEN ExistingAfter(n - 1)
  ELSE (ExistingAfter(n - 1) \ { resolved[n].src }) \cup { resolved[n].dest }

\* C3: unique_path(dest) is dest when dest does not exist, and otherwise
\* <stem>_<n><suffix> for the smallest n >= 1 whose path does not exist; the
\* path returned does not exist at the call; and the call of iteration i
\* sees the disk after the renames of iterations 1..i-1 have landed.
C3_UniquePath ==
  \A i \in 1..Len(resolved) :
    LET r == resolved[i]
    IN  /\ r.dest \notin r.existing
        /\ r.tentative \notin r.existing => r.dest = r.tentative
        /\ r.tentative \in r.existing =>
             \E n \in 1..(Cardinality(r.existing) + 1) :
               /\ r.dest = Numbered(r.tentative, n)
               /\ \A m \in 1..(n - 1) : Numbered(r.tentative, m) \in r.existing
        /\ r.existing = ExistingAfter(i - 1)

\* C3's case: in a run that renames, an iteration gets _2 because the
\* iteration before it has just taken _1.
C3_Witness ==
  /\ ~args.dry_run
  /\ \E i \in 2..Len(resolved) :
       /\ resolved[i].tentative \in resolved[i].existing
       /\ resolved[i].dest = Numbered(resolved[i].tentative, 2)
       /\ ~resolved[i - 1].skipped
       /\ resolved[i - 1].dest = Numbered(resolved[i].tentative, 1)
       /\ resolved[i - 1].dest \notin fs0

\* The number of decimal digits of n (of its magnitude).
NumDigits(n) == Len(NatStr(IF n < 0 THEN -n ELSE n))

\* C4: in sequential mode, for every --start the command line accepts and
\* every number of matched files, the indices of the files in sorted order
\* are start, start+1, ..., and every index is rendered zero-padded to one
\* common width that is at least the number of characters of the largest
\* index, so all rendered index fields of a run have the same length.
C4_SequentialIndices ==
  \A i \in 1..Len(rendered) :
    /\ rendered[i].idx = args.start + i - 1
    /\ i > 1 => rendered[i].idx > rendered[i - 1].idx
    /\ rendered[i].width = rendered[1].width
    /\ rendered[i].width >= Len(Str(rendered[Len(rendered)].idx))
    /\ Len(rendered[i].field) = rendered[i].width
    /\ Len(rendered[i].field) = Len(rendered[1].field)

\* C5: in sequential mode with start offset s and N matched files the
\* zero-padding width of every index is max(3, number of decimal digits of
\* the highest index s+N-1).  Stated for s >= 0, where "decimal digits" is
\* unambiguous.
C5_WidthOfHighestIndex ==
  \A i \in 1..Len(rendered) :
    args.start >= 0 =>
      rendered[i].width = Max(3, NumDigits(args.start + Len(files) - 1))

\* C6: slugify is idempotent: slugify(slugify(x)) = slugify(x) for every
\* string x.
C6_SlugifyIdempotent == Len(slugOut) = 2 => slugOut[2] = slugOut[1]

\* C6's case: a string that slugify changes in all three of its steps has
\* been slugified twice.
C6_Witness ==
  /\ Len(slugOut) = 2
  /\ slugIn = << " ", "a", " ", " " >>
  /\ slugOut[1] = << "a" >>

----------------------------------------------------------------------------
(* The PDF utilities: the claims.                                          *)

\* pdf2img was given a page range that is invalid for a document that has
\* pages: the first page is after the last one or beyond the document.
P2iInvalidRange ==
  /\ penv.pages >= 1
  /\ pargs.first # << >>
  /\ \/ pargs.first[1] > penv.pages
     \/ pargs.last # << >> /\ pargs.first[1] > pargs.last[1]

\* The run ended on a configuration error: a bad path or a bad argument.
PdfConfigError ==
  /\ ppc = "exit"
  /\ \/ util \in {"split", "extract"} /\ perr \in {"not_found", "not_pdf", "bad_arg", "bad_range"}
     \/ util = "pdf2img" /\ perr \in {"not_found", "not_pdf"}
     \/ util = "pdf2img" /\ perr = "bad_range" /\ P2iInvalidRange

RenConfigError ==
  /\ rpc = "exit"
  /\ rexit.msg \in { "Folder not found",
                     "--only-ext requires --change-ext to be provided",
                     "replace mode requires --replace-from" }

\* C7: in every utility a configuration error aborts the run before any
\* filesystem mutation: no file renamed or written, no directory created.
C7_ConfigErrorBeforeMutation ==
  /\ PdfConfigError => pmut = << >>
  /\ RenConfigError => Untouched

\* The failures that stop a run from producing its requested output.
TerminalFailures ==
  { "not_found", "not_pdf", "not_image", "no_images", "bad_arg", "bad_range",
    "open_failed", "save_failed" }

\* C8: every run of a main entry point that ends in a terminal failure (a
\* missing input, a wrong file type, an invalid page range, a library open
\* or save failure of the only output) exits with a non-zero exit code.
C8_FailureExitsNonZero ==
  /\ (ppc = "exit" /\ perr \in TerminalFailures) => pexit # 0
  /\ (rpc = "exit" /\ rexit.msg # "" /\ rexit.msg # "No files found."
        /\ rexit.msg # "No files matched the given source extension(s).")
       => rexit.code # 0

\* extract ran on an openable T-page document, T >= 1, with
\* 1 <= start_page <= T < end_page, and neither makedirs nor save failed.
ExtractBeyondEnd ==
  /\ util = "extract" /\ ppc = "exit"
  /\ penv.exists /\ IsPdfName(pargs.input) /\ IsPdfName(pargs.output)
  /\ perr \notin {"open_failed", "mkdir_failed", "save_failed"}
  /\ penv.pages >= 1
  /\ 1 <= pargs.start_page /\ pargs.start_page <= penv.pages
  /\ penv.pages < pargs.end_page

AdjustWarning == "Warning: End page exceeds total pages. Adjusting"

\* C9: extract_pages on a document of T >= 1 pages with
\* 1 <= start_page <= T < end_page does not fail: it clamps end_page to T
\* and writes a document of exactly the pages start_page..T in order, and it
\* warns of the adjustment exactly when verbose is set.
C9_ExtractClamps ==
  ExtractBeyondEnd =>
    /\ perr = "" /\ pexit = 0
    /\ newpdf = [ i \in 1..(penv.pages - pargs.start_page + 1) |-> pargs.start_page + i - 2 ]
    /\ pmut # << >> /\ pmut[Len(pmut)] = WriteFile(newpdf)
    /\ requested \subseteq 0..(penv.pages - 1)
    /\ (\E i \in 1..Len(pstderr) : pstderr[i] = AdjustWarning) <=> pargs.verbose

\* C9's case: a verbose extract of at least two pages whose end page was
\* beyond the document.
C9_Witness ==
  /\ ExtractBeyondEnd
  /\ pargs.verbose
  /\ pargs.start_page > 1
  /\ Len(newpdf) >= 2
  /\ pstderr = << AdjustWarning >>

CeilDiv(n, d) == (n + d - 1) \div d

\* The writes among the mutations, in order.
Writes == SelectSeq(pmut, LAMBDA m : m.op = "write")

\* split ran to its end with pages_per_file >= 1 and every save succeeded.
SplitAllSaved ==
  /\ util = "split" /\ ppc = "exit" /\ perr = ""
  /\ pargs.pages_per_file >= 1
  /\ \A j \in 1..Len(parts) : parts[j].saved

\* C10: split_pdf with pages_per_file = k >= 1 on an n-page document, when
\* every save succeeds, produces exactly ceil(n/k) parts numbered 1, 2, ...;
\* part j holds the pages (j-1)*k+1 .. min(j*k, n) in order, so every page
\* is in exactly one part, no page outside 1..n is requested, and every
\* part but the last has k pages.  (Pages are 0-based indices here.)
C10_SplitPartition ==
  SplitAllSaved =>
    LET n == penv.pages
        kk == pargs.pages_per_file
    IN  /\ Len(parts) = CeilDiv(n, kk)
        /\ \A j \in 1..Len(parts) :
             /\ parts[j].index = j
             /\ parts[j].pages = PageRange((j - 1) * kk, Min(j * kk, n) - 1)
             /\ j < Len(parts) => Len(parts[j].pages) = kk
        /\ \A pg \in 0..(n - 1) :
             Cardinality({ << j, i >> \in (1..Len(parts)) \X (1..n) :
                             i <= Len(parts[j].pages) /\ parts[j].pages[i] = pg }) = 1
        /\ requested \subseteq 0..(n - 1)
        /\ Writes = [ j \in 1..Len(parts) |-> WriteFile(parts[j].pages) ]

\* C10's case: a split into at least two parts whose last part is short.
C10_Witness ==
  /\ SplitAllSaved
  /\ Len(parts) >= 2
  /\ penv.pages % pargs.pages_per_file # 0
  /\ Len(parts[Len(parts)].pages) < pargs.pages_per_file

----------------------------------------------------------------------------
(* rename_file.py: the apply loop keeps every file.                        *)

\* The paths under which the content of original file f is found now.
PathsOf(f) == { q \in DOMAIN fs : fs[q] = f }

\* C11: in a run that renames, at every os.rename the source still exists
\* and the destination does not, so no rename overwrites a file; and after
\* any prefix of the apply loop, a run aborted by a failing rename included,
\* the folder holds as many files as at the start and every original file
\* exists under exactly one path.
C11_NoFileLost ==
  ~args.dry_run =>
    /\ \A i \in 1..Len(resolved) :
         resolved[i].called =>
           /\ resolved[i].src \in resolved[i].existing
           /\ resolved[i].dest \notin resolved[i].existing
    /\ Cardinality(DOMAIN fs) = Cardinality(fs0)
    /\ \A f \in fs0 : Cardinality(PathsOf(f)) = 1

\* C11's case: a rename that had to step aside from an existing file has
\* landed, and then a later rename failed and ended the run.
C11_Witness ==
  /\ ~args.dry_run
  /\ rpc = "exit" /\ rexit.msg = "OSError"
  /\ Len(resolved) >= 2
  /\ \E i \in 1..(Len(resolved) - 1) :
       /\ resolved[i].landed
       /\ resolved[i].tentative \in resolved[i].existing
       /\ resolved[i].tentative # resolved[i].src
  /\ ~resolved[Len(resolved)].landed /\ resolved[Len(resolved)].called

====
